---- MODULE Spec2Model ----
(***************************************************************************)
(* Model of package httptrace (OpenCensus tracing integration with         *)
(* net/http): the X-Cloud-Trace-Context header codec                       *)
(* (traceInfoFromHeader / spanContextToHeader) and the two adapters that   *)
(* use it (Transport.RoundTrip, handler.ServeHTTP).                        *)
(*                                                                         *)
(* Strings are sequences of one-character strings.  Bytes are integers in  *)
(* 0..255.  A uint64 is kept at its full width as a little-endian sequence *)
(* of NLimbs 7-bit groups (the groups binary.PutUvarint emits), the top    *)
(* group holding bit 63 only, so that 2^56 and 2^64 are represented        *)
(* exactly.                                                                *)
(***************************************************************************)
EXTENDS Integers, Sequences, FiniteSets, TLC

VARIABLES input, pc, dec, enc, inv

vars == <<input, pc, dec, enc, inv>>

-----------------------------------------------------------------------------
(* Program constants *)

\* len(h) > 200
MaxHeaderLen == 200
\* trace.TraceID is [16]byte
TraceIDLen == 16
\* trace.SpanID is [8]byte; buf = make([]byte, 8)
SpanIDLen == 8
\* strconv.ParseUint(_, 10, 64)
UintBits == 64
\* trace.TraceOptions is a uint32
OptionsBits == 32

\* const httpHeader
httpHeader == "X-Cloud-Trace-Context"

\* number of 7-bit groups of a uint64
NLimbs == (UintBits + 6) \div 7

-----------------------------------------------------------------------------
(* uint64 arithmetic on 7-bit groups *)

Zero64 == [i \in 1..NLimbs |-> 0]

ZeroBytes(n) == [i \in 1..n |-> 0]

\* the uint64 whose low groups are gs
FromGroups(gs) == [i \in 1..NLimbs |-> IF i <= Len(gs) THEN gs[i] ELSE 0]

\* x >= 0x80
AtLeast128(x) == \E j \in 2..NLimbs : x[j] # 0

\* x >> 7
Shr7(x) == [i \in 1..NLimbs |-> IF i < NLimbs THEN x[i + 1] ELSE 0]

\* x*10 + c; the top group is left unreduced so that the caller sees overflow
RECURSIVE MulTenAdd(_, _, _)
MulTenAdd(x, i, c) ==
    LET t == x[i] * 10 + c
    IN  IF i = NLimbs THEN <<t>>
        ELSE <<t % 128>> \o MulTenAdd(x, i + 1, t \div 128)

\* quotient and remainder of x by 10, from group i downwards with remainder r
RECURSIVE DivTen(_, _, _)
DivTen(x, i, r) ==
    IF i = 0 THEN [q |-> <<>>, r |-> r]
    ELSE LET cur  == r * 128 + x[i]
             rest == DivTen(x, i - 1, cur % 10)
         IN  [q |-> rest.q \o <<cur \div 10>>, r |-> rest.r]

\* uint32(x): the low OptionsBits bits of x
Trunc32(x) ==
    [i \in 1..NLimbs |->
        IF i * 7 <= OptionsBits THEN x[i]
        ELSE IF (i - 1) * 7 < OptionsBits
             THEN x[i] % (2 ^ (OptionsBits - (i - 1) * 7))
             ELSE 0]

-----------------------------------------------------------------------------
(* strconv, encoding/hex, encoding/binary, strings *)

DigitChars == <<"0", "1", "2", "3", "4", "5", "6", "7", "8", "9">>
HexLower == DigitChars \o <<"a", "b", "c", "d", "e", "f">>
HexUpper == DigitChars \o <<"A", "B", "C", "D", "E", "F">>

PosIn(c, s) == IF \E i \in 1..Len(s) : s[i] = c
               THEN CHOOSE i \in 1..Len(s) : s[i] = c
               ELSE 0

IsDigit(c) == PosIn(c, DigitChars) # 0
DigitVal(c) == PosIn(c, DigitChars) - 1

\* encoding/hex fromHexChar: -1 for a character that is no hex digit
fromHexChar(c) ==
    IF PosIn(c, HexLower) # 0 THEN PosIn(c, HexLower) - 1
    ELSE IF PosIn(c, HexUpper) # 0 THEN PosIn(c, HexUpper) - 1
    ELSE -1

\* the digits of s from position i on, accumulated onto acc; err when the
\* value reaches 2^64
RECURSIVE ParseDigits(_, _, _)
ParseDigits(s, i, acc) ==
    IF i > Len(s) THEN [err |-> FALSE, val |-> acc]
    ELSE LET n == MulTenAdd(acc, 1, DigitVal(s[i]))
         IN  IF n[NLimbs] > 1 THEN [err |-> TRUE, val |-> Zero64]
             ELSE ParseDigits(s, i + 1, n)

\* s without its leading zeros
StripZeros(s) ==
    IF \A i \in 1..Len(s) : s[i] = "0" THEN <<>>
    ELSE LET first == CHOOSE i \in 1..Len(s) :
                          s[i] # "0" /\ \A j \in 1..(i - 1) : s[j] = "0"
         IN  SubSeq(s, first, Len(s))

\* strconv.ParseUint(s, 10, 64): err on "", on a non-digit, on a value >= 2^64
\* (every numeral of more than 20 significant digits is one)
ParseUint(s) ==
    IF s = <<>> \/ \E i \in 1..Len(s) : ~IsDigit(s[i])
    THEN [err |-> TRUE, val |-> Zero64]
    ELSE LET sig == StripZeros(s)
         IN  IF Len(sig) > 20 THEN [err |-> TRUE, val |-> Zero64]
             ELSE ParseDigits(sig, 1, Zero64)

\* strconv.FormatUint(x, 10)
RECURSIVE FormatDigits(_)
FormatDigits(x) ==
    IF x = Zero64 THEN <<>>
    ELSE LET d == DivTen(x, NLimbs, 0)
         IN  FormatDigits(d.q) \o <<DigitChars[d.r + 1]>>

FormatUint(x) == IF x = Zero64 THEN <<"0">> ELSE FormatDigits(x)

\* hex.DecodeString(s): err on an odd length or a non-hex character
HexPairs(s) ==
    [i \in 1..(Len(s) \div 2) |->
        fromHexChar(s[2 * i - 1]) * 16 + fromHexChar(s[2 * i])]

hexDecodeString(s) ==
    IF Len(s) % 2 # 0 \/ \E i \in 1..Len(s) : fromHexChar(s[i]) = -1
    THEN [err |-> TRUE, bytes |-> <<>>]
    ELSE [err |-> FALSE, bytes |-> HexPairs(s)]

\* hex.EncodeToString(b)
RECURSIVE hexEncodeToString(_)
hexEncodeToString(b) ==
    IF b = <<>> THEN <<>>
    ELSE <<HexLower[(b[1] \div 16) + 1], HexLower[(b[1] % 16) + 1]>>
         \o hexEncodeToString(Tail(b))

\* copy(dst[:], src) into a zeroed array of n bytes
CopyInto(n, src) == [i \in 1..n |-> IF i <= Len(src) THEN src[i] ELSE 0]

\* binary.PutUvarint(buf, x): panics (index out of range) when buf is too small
RECURSIVE PutUvarintFrom(_, _, _)
PutUvarintFrom(buf, x, i) ==
    IF i >= Len(buf) THEN [panic |-> TRUE, buf |-> buf]
    ELSE IF AtLeast128(x)
         THEN PutUvarintFrom([buf EXCEPT ![i + 1] = x[1] + 128], Shr7(x), i + 1)
         ELSE [panic |-> FALSE, buf |-> [buf EXCEPT ![i + 1] = x[1]]]

PutUvarint(buf, x) == PutUvarintFrom(buf, x, 0)

\* binary.Uvarint(buf): 0 when no byte below 0x80 ends the value
RECURSIVE UvarintFrom(_, _, _)
UvarintFrom(buf, i, groups) ==
    IF i > Len(buf) THEN Zero64
    ELSE IF buf[i] < 128 THEN FromGroups(groups \o <<buf[i]>>)
    ELSE UvarintFrom(buf, i + 1, groups \o <<buf[i] % 128>>)

Uvarint(buf) == UvarintFrom(buf, 1, <<>>)

\* strings.Index(s, c) for a one-character c, 0-based, -1 when absent
Index(s, c) == PosIn(c, s) - 1

\* strings.HasPrefix(s, p)
HasPrefix(s, p) == Len(s) >= Len(p) /\ SubSeq(s, 1, Len(p)) = p

\* s[:k] and s[k:]
Upto(s, k) == SubSeq(s, 1, k)
From(s, k) == SubSeq(s, k + 1, Len(s))

-----------------------------------------------------------------------------
(* The codec *)

ZeroTraceID == ZeroBytes(TraceIDLen)
ZeroSpanID == ZeroBytes(SpanIDLen)

\* return trace.TraceID{}, trace.SpanID{}, 0, false, false
Invalid ==
    [panic |-> FALSE, traceID |-> ZeroTraceID, spanID |-> ZeroSpanID,
     options |-> Zero64, optionsOk |-> FALSE, ok |-> FALSE]

\* a run-time panic inside traceInfoFromHeader: nothing is returned
Panicked ==
    [panic |-> TRUE, traceID |-> ZeroTraceID, spanID |-> ZeroSpanID,
     options |-> Zero64, optionsOk |-> FALSE, ok |-> FALSE]

OptionsPartial(traceID, spanID) ==
    [panic |-> FALSE, traceID |-> traceID, spanID |-> spanID,
     options |-> Zero64, optionsOk |-> FALSE, ok |-> FALSE]

\* the return of the failing options parse
OptionsInvalid(traceID, spanID) == Invalid

\* the options field, once traceID and spanID are parsed; h is the text after
\* the first ';', or the whole span field when there is no ';'
ParseOptions(traceID, spanID, h) ==
    IF ~HasPrefix(h, <<"o", "=">>)
    THEN [panic |-> FALSE, traceID |-> traceID, spanID |-> spanID,
          options |-> Zero64, optionsOk |-> FALSE, ok |-> TRUE]
    ELSE LET o == ParseUint(From(h, 2))
         IN  IF o.err THEN OptionsInvalid(traceID, spanID)
             ELSE [panic |-> FALSE, traceID |-> traceID, spanID |-> spanID,
                   options |-> Trunc32(o.val), optionsOk |-> TRUE, ok |-> TRUE]

\* the span id field and what follows it; h is the text after the first '/'
ParseSpan(traceID, h) ==
    LET semicolon == Index(h, ";")
        spanstr   == IF semicolon # -1 THEN Upto(h, semicolon) ELSE h
        rest      == IF semicolon # -1 THEN From(h, semicolon + 1) ELSE h
        sid       == ParseUint(spanstr)
    IN  IF sid.err THEN Invalid
        ELSE LET put == PutUvarint(ZeroBytes(SpanIDLen), sid.val)
             IN  IF put.panic THEN Panicked
                 ELSE ParseOptions(traceID, CopyInto(SpanIDLen, put.buf), rest)

traceInfoFromHeader(h) ==
    IF h = <<>> \/ Len(h) > MaxHeaderLen THEN Invalid
    ELSE LET slash == Index(h, "/")
         IN  IF slash = -1 THEN Invalid
             ELSE LET tid == Upto(h, slash)
                      buf == hexDecodeString(tid)
                  IN  IF buf.err THEN Invalid
                      ELSE ParseSpan(CopyInto(TraceIDLen, buf.bytes),
                                     From(h, slash + 1))

spanContextToHeader(sc) ==
    LET traceID == hexEncodeToString(sc.TraceID)
        sid     == Uvarint(sc.SpanID)
        spanID  == FormatUint(sid)
        opts    == FormatUint(sc.TraceOptions)
    IN  traceID \o <<"/">> \o spanID \o <<";">> \o opts

-----------------------------------------------------------------------------
(* Inputs of the codec *)

\* longest header over Alphabet that is tried exhaustively
MaxLen == 4

\* the characters the parser tells apart: a digit, a hex letter, a non-hex
\* letter, the separators and the options prefix
Alphabet == {"1", "a", "g", "/", ";", "o", "="}

ShortHeaders == UNION {[1..n -> Alphabet] : n \in 0..MaxLen}

\* "105445aa7843bc8bf206b12000100000", the TraceID of TestSpanContext
TestTraceIDHex ==
    <<"1", "0", "5", "4", "4", "5", "a", "a", "7", "8", "4", "3", "b", "c",
      "8", "b", "f", "2", "0", "6", "b", "1", "2", "0", "0", "0", "1", "0",
      "0", "0", "0", "0">>

\* the same TraceID in upper-case hex digits
UpperTraceIDHex ==
    <<"1", "0", "5", "4", "4", "5", "A", "A", "7", "8", "4", "3", "B", "C",
      "8", "B", "F", "2", "0", "6", "B", "1", "2", "0", "0", "0", "1", "0",
      "0", "0", "0", "0">>

\* traceID := [16]byte{16, 84, 69, 170, 120, 67, 188, 139, 242, 6, 177, 32, 0, 16, 0, 0}
TestTraceID == <<16, 84, 69, 170, 120, 67, 188, 139, 242, 6, 177, 32, 0, 16, 0, 0>>

\* text before the first '/'
TraceIDFields ==
    { TestTraceIDHex,
      UpperTraceIDHex,
      <<>>,                                  \* no bytes
      <<"1", "0", "5", "4">>,                \* 2 bytes
      <<"1", "0", "5">>,                     \* odd length
      SubSeq(TestTraceIDHex, 1, 30) \o <<"g", "0">>,   \* non-hex character
      TestTraceIDHex \o <<"f", "f">> }       \* 17 bytes

\* 2^56 - 1, 2^56, 2^64 - 1, 2^64 in base 10
Dec2p56m1 == <<"7", "2", "0", "5", "7", "5", "9", "4", "0", "3", "7", "9", "2", "7", "9", "3", "5">>
Dec2p56 == <<"7", "2", "0", "5", "7", "5", "9", "4", "0", "3", "7", "9", "2", "7", "9", "3", "6">>
Dec2p64m1 == <<"1", "8", "4", "4", "6", "7", "4", "4", "0", "7", "3", "7", "0", "9", "5", "5", "1", "6", "1", "5">>
Dec2p64 == <<"1", "8", "4", "4", "6", "7", "4", "4", "0", "7", "3", "7", "0", "9", "5", "5", "1", "6", "1", "6">>
\* 2^32 + 1 in base 10
Dec2p32p1 == <<"4", "2", "9", "4", "9", "6", "7", "2", "9", "7">>

\* text between the first '/' and the first ';' after it
SpanIDFields ==
    { <<"1", "2", "3">>, <<"0">>, <<"3", "0", "0">>, <<"0", "1", "2", "3">>,
      <<>>, <<"1", "2", "x">>, <<"-", "1">>,
      Dec2p56m1, Dec2p56, Dec2p64m1, Dec2p64 }

\* n zeros and a one: a decimal numeral of n + 1 digits
Padded(n) == [i \in 1..(n + 1) |-> IF i <= n THEN "0" ELSE "1"]

\* text after the span id field
OptionsFields ==
    { <<>>,
      <<";">>,
      <<";", "o", "=", "1">>,
      <<";", "o", "=", "0">>,
      <<";", "1">>,
      <<";", "o", "=">>,
      <<";", "o", "=", "x">>,
      <<";", "x", "=", "1">>,
      <<";", "o", "=", "1", ";", "o", "=", "2">>,
      <<";", "o", "=">> \o Dec2p32p1,
      <<";", "o", "=">> \o Dec2p64,
      \* with the test TraceID and span id 123: 200 and 201 characters
      <<";", "o", "=">> \o Padded(MaxHeaderLen - 40),
      <<";", "o", "=">> \o Padded(MaxHeaderLen - 39) }

FieldHeaders ==
    { t \o <<"/">> \o s \o o :
        t \in TraceIDFields, s \in SpanIDFields, o \in OptionsFields }

Headers == ShortHeaders \cup FieldHeaders \cup {TestTraceIDHex}

TraceIDs ==
    { TestTraceID, ZeroBytes(TraceIDLen), [i \in 1..TraceIDLen |-> 255] }

\* SpanIDs: PutUvarint of 123, 0, 300 and 2^56 - 1, and byte strings that no
\* PutUvarint produces
SpanIDs ==
    { <<123, 0, 0, 0, 0, 0, 0, 0>>,
      <<0, 0, 0, 0, 0, 0, 0, 0>>,
      <<172, 2, 0, 0, 0, 0, 0, 0>>,
      <<255, 255, 255, 255, 255, 255, 255, 127>>,
      <<128, 0, 0, 0, 0, 0, 0, 0>>,
      <<255, 255, 255, 255, 255, 255, 255, 255>>,
      <<1, 2, 3, 4, 5, 6, 7, 8>> }

\* TraceOptions 0, 1, 2 and 2^32 - 1
TraceOptionsValues ==
    { Zero64, FromGroups(<<1>>), FromGroups(<<2>>),
      FromGroups(<<127, 127, 127, 127, 15>>) }

SpanContexts ==
    [TraceID : TraceIDs, SpanID : SpanIDs, TraceOptions : TraceOptionsValues]

\* the SpanContext a successful decode returns
DecodedContext(r) ==
    [TraceID |-> r.traceID, SpanID |-> r.spanID, TraceOptions |-> r.options]

None == [none |-> TRUE]

-----------------------------------------------------------------------------
(* The codec applied to its inputs, in the two orders of TestSpanContext *)

NumInvocations == 2

Idle == [kind |-> "none", pc |-> "idle"]

Init ==
    /\ input \in [kind : {"header"}, h : Headers]
                 \cup [kind : {"sc"}, sc : SpanContexts]
    /\ pc = "start"
    /\ dec = None
    /\ enc = None
    /\ inv = [i \in 1..NumInvocations |-> Idle]

\* spanContext, ok := traceInfoFromHeader(tt.incoming)
DecodeHeader ==
    /\ pc = "start"
    /\ input.kind = "header"
    /\ dec' = traceInfoFromHeader(input.h)
    /\ pc' = "decoded"
    /\ UNCHANGED <<input, enc, inv>>

\* spanContextToHeader(spanContext) of the decoded context
EncodeDecoded ==
    /\ pc = "decoded"
    /\ ~dec.panic
    /\ dec.ok
    /\ enc' = spanContextToHeader(DecodedContext(dec))
    /\ pc' = "reencoded"
    /\ UNCHANGED <<input, dec, inv>>

\* spanContextToHeader(sc)
EncodeContext ==
    /\ pc = "start"
    /\ input.kind = "sc"
    /\ enc' = spanContextToHeader(input.sc)
    /\ pc' = "encoded"
    /\ UNCHANGED <<input, dec, inv>>

\* traceInfoFromHeader of the encoded header
DecodeEncoded ==
    /\ pc = "encoded"
    /\ dec' = traceInfoFromHeader(enc)
    /\ pc' = "redecoded"
    /\ UNCHANGED <<input, enc, inv>>

Next ==
    \/ DecodeHeader
    \/ EncodeDecoded
    \/ EncodeContext
    \/ DecodeEncoded

Spec == Init /\ [][Next]_vars

-----------------------------------------------------------------------------
(* The adapters.  Each invocation of Transport.RoundTrip or                 *)
(* handler.ServeHTTP is a process of its own; the delegated call to the     *)
(* base RoundTripper / Handler is its only suspension point.                *)

Invocations == 1..NumInvocations

\* the parent span of TestTransport_RoundTrip, when the request carries one
\* (a span that is not sampled)
ParentSpans ==
    { [TraceID |-> TestTraceID, SpanID |-> <<5, 0, 0, 0, 0, 0, 0, 0>>,
       TraceOptions |-> Zero64] }

\* identifiers the tracing engine may assign to a new span
NewTraceIDs == { [i \in 1..TraceIDLen |-> 171] }
NewSpanIDs == { <<123, 0, 0, 0, 0, 0, 0, 0>>, <<1, 2, 3, 4, 5, 6, 7, 8>> }
\* the sampler's decision for a root span
SamplingDecisions == { FromGroups(<<1>>) }

\* trace.StartSpan(ctx, name): the spans the engine may start, as a child of
\* the span in ctx when there is one (same TraceID, its sampling decision),
\* as a root span otherwise
StartSpan(parent) ==
    IF parent = None
    THEN { [sc |-> [TraceID |-> t, SpanID |-> s, TraceOptions |-> o],
            parentKind |-> "root", parentSC |-> None] :
             t \in NewTraceIDs, s \in NewSpanIDs, o \in SamplingDecisions }
    ELSE { [sc |-> [TraceID |-> parent.TraceID, SpanID |-> s,
                    TraceOptions |-> parent.TraceOptions],
            parentKind |-> "local", parentSC |-> parent] :
             s \in NewSpanIDs }

\* trace.StartSpanWithRemoteParent(ctx, name, parent, StartSpanOptions{})
StartSpanWithRemoteParent(parent) ==
    { [sc |-> [TraceID |-> parent.TraceID, SpanID |-> s,
               TraceOptions |-> parent.TraceOptions],
       parentKind |-> "remote", parentSC |-> parent] :
         s \in NewSpanIDs }

\* req.Header.Set(httpHeader, v) on a request whose header held prior
HeaderSet(prior, v) == v

\* values of the X-Cloud-Trace-Context header of a request; <<>> is what
\* Header.Get returns for an absent header
RequestHeaders ==
    { <<>>,
      TestTraceIDHex \o <<"/", "1", "2", "3", ";", "o", "=", "1">>,
      TestTraceIDHex \o <<"/", "1", "2", "3">>,
      TestTraceIDHex \o <<"/", "x">>,
      TestTraceIDHex \o <<"/", "1", "2", "3", ";", "o", "=">>
          \o Padded(MaxHeaderLen - 39),
      TestTraceIDHex \o <<"/">> \o Dec2p56 }

\* what the header of an outgoing request holds before RoundTrip sets it
PriorHeaders ==
    { <<>>, TestTraceIDHex \o <<"/", "7", ";", "o", "=", "0">> }

\* what the base RoundTripper returns
BaseResults == {"resp", "err"}

NewInvocation(kind) ==
    [kind |-> kind, pc |-> "started", parent |-> None, span |-> None,
     hdr |-> <<>>, log |-> <<>>, res |-> None, ret |-> None]

\* RoundTrip up to the call of the base RoundTripper: the span is started
\* and its context written to the request's header
RoundTripBegin(i) ==
    /\ inv[i].pc = "idle"
    /\ \E parent \in ParentSpans \cup {None}, prior \in PriorHeaders :
         \E span \in StartSpan(parent) :
            inv' = [inv EXCEPT ![i] =
                      [NewInvocation("out") EXCEPT
                         !.parent = parent,
                         !.span = span,
                         !.hdr = HeaderSet(prior, spanContextToHeader(span.sc)),
                         !.log = <<"start">>]]
    /\ UNCHANGED <<input, pc, dec, enc>>

\* resp, err := t.base().RoundTrip(req)
RoundTripBase(i) ==
    /\ inv[i].kind = "out"
    /\ inv[i].pc = "started"
    /\ \E r \in BaseResults :
         inv' = [inv EXCEPT ![i].pc = "delegated",
                            ![i].log = Append(@, "delegate"),
                            ![i].res = r]
    /\ UNCHANGED <<input, pc, dec, enc>>

RoundTripEndSkipsOnErr(i) ==
    /\ inv[i].kind = "out"
    /\ inv[i].pc = "delegated"
    /\ inv' = [inv EXCEPT ![i].pc = "done",
                          ![i].log = IF inv[i].res = "err" THEN @
                                     ELSE Append(@, "end"),
                          ![i].ret = inv[i].res]
    /\ UNCHANGED <<input, pc, dec, enc>>

\* trace.EndSpan(ctx); return resp, err
RoundTripEnd(i) ==
    /\ inv[i].kind = "out"
    /\ inv[i].pc = "delegated"
    /\ inv' = [inv EXCEPT ![i].pc = "done",
                          ![i].log = Append(@, "end"),
                          ![i].ret = inv[i].res]
    /\ UNCHANGED <<input, pc, dec, enc>>

\* ServeHTTP up to the call of the wrapped handler: the header is decoded and
\* the span started; a panic of traceInfoFromHeader unwinds ServeHTTP before
\* any span is started
ServeHTTPBegin(i) ==
    /\ inv[i].pc = "idle"
    /\ \E h \in RequestHeaders :
         LET d == traceInfoFromHeader(h)
         IN  IF d.panic
             THEN inv' = [inv EXCEPT ![i] =
                            [NewInvocation("in") EXCEPT
                               !.pc = "panicked", !.hdr = h]]
             ELSE \E span \in IF d.ok
                              THEN StartSpanWithRemoteParent(DecodedContext(d))
                              ELSE StartSpan(None) :
                    inv' = [inv EXCEPT ![i] =
                              [NewInvocation("in") EXCEPT
                                 !.hdr = h,
                                 !.span = span,
                                 !.log = <<"start">>]]
    /\ UNCHANGED <<input, pc, dec, enc>>

\* h.handler.ServeHTTP(w, r)
ServeHTTPHandler(i) ==
    /\ inv[i].kind = "in"
    /\ inv[i].pc = "started"
    /\ inv' = [inv EXCEPT ![i].pc = "delegated",
                          ![i].log = Append(@, "delegate"),
                          ![i].res = "returned"]
    /\ UNCHANGED <<input, pc, dec, enc>>

\* defer trace.EndSpan(ctx)
ServeHTTPEnd(i) ==
    /\ inv[i].kind = "in"
    /\ inv[i].pc = "delegated"
    /\ inv' = [inv EXCEPT ![i].pc = "done",
                          ![i].log = Append(@, "end"),
                          ![i].ret = inv[i].res]
    /\ UNCHANGED <<input, pc, dec, enc>>

AdapterInit ==
    /\ input = None
    /\ pc = "adapters"
    /\ dec = None
    /\ enc = None
    /\ inv = [i \in Invocations |-> Idle]

AdapterNext ==
    \/ \E i \in Invocations : RoundTripBegin(i)
    \/ \E i \in Invocations : RoundTripBase(i)
    \/ \E i \in Invocations : RoundTripEnd(i)
    \/ \E i \in Invocations : ServeHTTPBegin(i)
    \/ \E i \in Invocations : ServeHTTPHandler(i)
    \/ \E i \in Invocations : ServeHTTPEnd(i)

AdapterSpec == AdapterInit /\ [][AdapterNext]_vars

-----------------------------------------------------------------------------
(* Vocabulary of the properties *)

\* the header of the first case of TestSpanContext
TestHeader == TestTraceIDHex \o <<"/", "1", "2", "3", ";", "o", "=", "1">>

\* the SpanContext of the first case of TestSpanContext
TestContext ==
    [TraceID |-> TestTraceID, SpanID |-> <<123, 0, 0, 0, 0, 0, 0, 0>>,
     TraceOptions |-> FromGroups(<<1>>)]

\* the documented layout: hex TraceID, '/', decimal SpanID, ";o=", decimal options
LayoutOf(sc) ==
    hexEncodeToString(sc.TraceID) \o <<"/">> \o FormatUint(Uvarint(sc.SpanID))
        \o <<";", "o", "=">> \o FormatUint(sc.TraceOptions)

\* sc.SpanID is the 8-byte uvarint encoding of an integer (below 2^56)
Representable(sc) ==
    LET put == PutUvarint(ZeroBytes(SpanIDLen), Uvarint(sc.SpanID))
    IN  ~put.panic /\ put.buf = sc.SpanID

HasSlash(h) == Index(h, "/") # -1
\* the text before the first '/', and the text after it
TraceIDFieldOf(h) == Upto(h, Index(h, "/"))
AfterSlash(h) == From(h, Index(h, "/") + 1)
\* t is the hex encoding of exactly 16 bytes
IsTraceIDText(t) ==
    Len(t) = 2 * TraceIDLen /\ \A i \in 1..Len(t) : fromHexChar(t[i]) # -1
HasSemicolon(h) == Index(AfterSlash(h), ";") # -1
\* the text between the first '/' and the first ';' after it (or the end)
SpanIDFieldOf(h) ==
    IF HasSemicolon(h) THEN Upto(AfterSlash(h), Index(AfterSlash(h), ";"))
    ELSE AfterSlash(h)
\* the text after that ';'
OptionsTextOf(h) == From(AfterSlash(h), Index(AfterSlash(h), ";") + 1)
\* s is a base-10 unsigned 64-bit integer
IsUint64Text(s) == ~ParseUint(s).err

ZeroResult(r) ==
    /\ r.traceID = ZeroTraceID
    /\ r.spanID = ZeroSpanID
    /\ r.options = Zero64
    /\ r.optionsOk = FALSE

Returned(r) == r # None /\ ~r.panic

-----------------------------------------------------------------------------
(* Properties of the codec *)

\* C1: round-trip law.  For every SpanContext sc whose SpanID is the 8-byte
\* uvarint encoding of an integer, traceInfoFromHeader(spanContextToHeader(sc))
\* returns ok=true with exactly sc's TraceID, SpanID and TraceOptions.
RoundTripLaw ==
    (pc = "redecoded" /\ Representable(input.sc)) =>
        /\ Returned(dec)
        /\ dec.ok
        /\ DecodedContext(dec) = input.sc

\* C2: spanContextToHeader(sc) is the 32 lower-case hex characters of the
\* TraceID, '/', the decimal digits of the SpanID read as a uvarint, ";o=",
\* and the decimal digits of TraceOptions; the test vector encodes to
\* "105445aa7843bc8bf206b12000100000/123;o=1".
EncodeLayout ==
    pc = "encoded" =>
        /\ enc = LayoutOf(input.sc)
        /\ input.sc = TestContext => enc = TestHeader

\* C3: inverse law.  Every header that decodes with ok=true is reproduced
\* byte for byte by spanContextToHeader of the decoded context.
InverseLaw ==
    pc = "reencoded" => enc = input.h

\* C4: traceInfoFromHeader returns normally on every input string.
DecodeNeverPanics ==
    dec # None => ~dec.panic

\* C8: when the TraceID and SpanID fields are valid and a ';' follows the
\* SpanID field, ok=true only if the text after that ';' is "o=" followed by
\* a base-10 unsigned 64-bit integer.
OptionsFieldRule ==
    (/\ pc = "decoded"
     /\ HasSlash(input.h)
     /\ IsTraceIDText(TraceIDFieldOf(input.h))
     /\ IsUint64Text(SpanIDFieldOf(input.h))
     /\ HasSemicolon(input.h)
     /\ Returned(dec)
     /\ dec.ok)
        => /\ HasPrefix(OptionsTextOf(input.h), <<"o", "=">>)
           /\ IsUint64Text(From(OptionsTextOf(input.h), 2))

\* C9: ok=false for every header without a '/' and for every header whose
\* text before the first '/' is not the hex encoding of exactly 16 bytes.
TraceIDFieldRule ==
    (/\ pc = "decoded"
     /\ \/ ~HasSlash(input.h)
        \/ ~IsTraceIDText(TraceIDFieldOf(input.h)))
        => ~dec.ok

\* C10: whenever traceInfoFromHeader returns ok=false, at whichever step, the
\* TraceID and SpanID it returns are all zero, the options 0 and optionsOk
\* false.
FailureReturnsZero ==
    (Returned(dec) /\ ~dec.ok) => ZeroResult(dec)

\* C10 witness: a decode that fails at the options step, after a 16-byte
\* TraceID other than zero and a SpanID other than zero were parsed.
FailureAfterPartialParse ==
    /\ pc = "decoded"
    /\ Returned(dec)
    /\ ~dec.ok
    /\ HasSlash(input.h)
    /\ TraceIDFieldOf(input.h) = TestTraceIDHex
    /\ SpanIDFieldOf(input.h) = <<"1", "2", "3">>
    /\ HasSemicolon(input.h)
    /\ HasPrefix(OptionsTextOf(input.h), <<"o", "=">>)

-----------------------------------------------------------------------------
(* Properties of the adapters *)

Program == <<"start", "delegate", "end">>

IsPrefix(l, m) == Len(l) <= Len(m) /\ SubSeq(m, 1, Len(l)) = l

Count(l, e) == Cardinality({k \in 1..Len(l) : l[k] = e})

\* C5: the request the base RoundTripper observes carries the new span, which
\* shares the TraceID of the parent span when there is one, and its
\* X-Cloud-Trace-Context header decodes with ok=true to exactly that span's
\* TraceID, SpanID and TraceOptions.
OutboundHeaderDecodesToSpan ==
    \A i \in Invocations :
        (inv[i].kind = "out" /\ inv[i].pc \in {"delegated", "done"}) =>
            LET d == traceInfoFromHeader(inv[i].hdr)
            IN  /\ inv[i].span # None
                /\ inv[i].parent # None =>
                       inv[i].span.sc.TraceID = inv[i].parent.TraceID
                /\ Returned(d)
                /\ d.ok
                /\ DecodedContext(d) = inv[i].span.sc

\* C6: every incoming request has the wrapped handler invoked exactly once
\* with a span in the request's context: a span whose remote parent is
\* exactly the decoded context when the header decodes, a root span when it
\* does not; no header prevents the invocation.
InboundHandlerInvoked ==
    \A i \in Invocations :
        (inv[i].kind = "in" /\ inv[i].pc \in {"done", "panicked"}) =>
            LET d == traceInfoFromHeader(inv[i].hdr)
            IN  /\ Count(inv[i].log, "delegate") = 1
                /\ inv[i].span # None
                /\ (Returned(d) /\ d.ok) =>
                       /\ inv[i].span.parentKind = "remote"
                       /\ inv[i].span.parentSC = DecodedContext(d)
                /\ ~(Returned(d) /\ d.ok) =>
                       inv[i].span.parentKind = "root"

\* C7: in every invocation, under every interleaving, the span start
\* precedes the delegated call, which precedes the span end; no span is
\* ended twice; an invocation that has returned has ended its span exactly
\* once, whatever the delegated call returned, and RoundTrip returns the
\* sender's result unchanged.
SpanLifecycleOrder ==
    \A i \in Invocations :
        /\ inv[i].kind # "none" => IsPrefix(inv[i].log, Program)
        /\ inv[i].pc = "delegated" => inv[i].log = <<"start", "delegate">>
        /\ inv[i].pc = "done" =>
               /\ inv[i].log = Program
               /\ Count(inv[i].log, "end") = 1
               /\ inv[i].ret = inv[i].res
        /\ inv[i].pc = "panicked" => inv[i].log = <<>>

\* C7 witness: a RoundTrip whose sender failed has returned while a
\* ServeHTTP is inside its wrapped handler.
ConcurrentInvocations ==
    \E i, j \in Invocations :
        /\ i # j
        /\ inv[i].kind = "out" /\ inv[i].pc = "done" /\ inv[i].res = "err"
        /\ inv[j].kind = "in" /\ inv[j].pc = "delegated"

====
